---- MODULE Spec2Model ----
(***************************************************************************)
(* Subtypable booleans of pythonic_fp.booleans: SBool (subtypable.py),     *)
(* FBool (subtypes/flavored.py) and TF_Bool / T_Bool / F_Bool              *)
(* (subtypes/true_false.py).                                               *)
(*                                                                         *)
(* A Python value is a record [ty, val, key, n]:                           *)
(*   ty   the exact type of the value,                                     *)
(*   val  its int payload (for a str: its length),                         *)
(*   key  for an FBool the dict key it was created under,                  *)
(*   n    how many objects with the same (ty, val, key) were allocated     *)
(*        before it, so that two allocations are two distinct objects.     *)
(* Identity (Python `is`) is equality of these records; Python `==` on     *)
(* numbers is equality of val.                                             *)
(***************************************************************************)
EXTENDS Integers, FiniteSets, Sequences, TLC

VARIABLES
    slots,          \* the class attributes _truthy / _falsy of SBool and the classes below it
    FBool_truthy,   \* FBool._truthy : dict flavor -> FBool
    FBool_falsy,    \* FBool._falsy  : dict flavor -> FBool
    heap,           \* every object int.__new__ has allocated so far
    flavor,         \* the instance attribute _flavor of each allocated object
    consts,         \* the module constants TRUTH, LIE, ALWAYS, NEVER_EVER
    last,           \* the call the main thread made last, with its outcome
    ncalls,         \* number of top-level calls the main thread has made
    pc,             \* per thread: position inside a constructor call
    call,           \* per thread: the constructor call in progress
    locks,          \* the threading.Lock class attributes
    returned        \* what the threads' constructor calls have returned

vars == <<slots, FBool_truthy, FBool_falsy, heap, flavor, consts, last, ncalls,
          pc, call, locks, returned>>

----------------------------------------------------------------------------
(* Bounds *)

MaxCalls == 3          \* top-level calls of the main thread in one behaviour
RecursionLimit == 3    \* depth at which the interpreter raises RecursionError
NumThreads == 3
FairThreads == 2        \* threads calling constructors concurrently

----------------------------------------------------------------------------
(* Python values *)

NoKey == [k |-> "none", v |-> 0]

Prim(ty, val) == [ty |-> ty, val |-> val, key |-> NoKey, n |-> 0]

NoValue == Prim("NoValue", 0)      \* the NoValue() sentinel, _novalue
Undefined == Prim("undefined", 0)  \* a name that is not in a class's own __dict__
Unset == Prim("unset", 0)          \* an instance attribute that was never assigned
Absent == Prim("absent", 0)        \* an argument the caller did not pass
None == Prim("None", 0)            \* no value (a call that raised)

PyTrue == Prim("bool", 1)
PyFalse == Prim("bool", 0)
PyBool(b) == IF b THEN PyTrue ELSE PyFalse
PyInt(i) == Prim("int", i)
PyStr(len) == Prim("str", len)     \* strings are told apart by val

HierarchyTypes == {"SBool", "Sub", "FBool", "SubF", "TF_Bool", "T_Bool", "F_Bool"}

\* the class each class derives from; Sub and SubF are user subclasses with an
\* empty body: class Sub(SBool): pass, class SubF(FBool): pass
Parent(ty) ==
    CASE ty = "Sub" -> "SBool"
      [] ty = "FBool" -> "SBool"
      [] ty = "SubF" -> "FBool"
      [] ty = "TF_Bool" -> "SBool"
      [] ty = "T_Bool" -> "TF_Bool"
      [] ty = "F_Bool" -> "TF_Bool"
      [] ty = "SBool" -> "int"
      [] ty = "bool" -> "int"
      [] OTHER -> "object"

RECURSIVE Mro(_)
Mro(ty) == IF ty = "object" THEN <<"object">> ELSE <<ty>> \o Mro(Parent(ty))

Range(s) == {s[i] : i \in DOMAIN s}

IsSubclass(a, b) == b \in Range(Mro(a))

IsInstance(v, ty) == IsSubclass(v.ty, ty)

\* bool(v): an int (or int subclass) is truthy when non-zero, a str when non-empty
Truthy(v) == v.val # 0

\* the key a flavor has in a dict: hash and == agree for 1 and True
KeyOf(f) == [k |-> IF f.ty \in {"int", "bool"} THEN "num" ELSE f.ty, v |-> f.val]

----------------------------------------------------------------------------
(* The state the constructors and operators work on, and their results *)

St == [slots |-> slots, FBool_truthy |-> FBool_truthy, FBool_falsy |-> FBool_falsy,
       heap |-> heap, flavor |-> flavor]

Ret(v, st) == [out |-> "ret", val |-> v, st |-> st]
\* a raise that empties the truthy map of FBool on its way out
Raise_evicting(exc, st) ==
    [out |-> exc, val |-> None, st |-> [st EXCEPT !.FBool_truthy = <<>>]]

Raise(exc, st) == [out |-> exc, val |-> None, st |-> st]

\* int.__new__(cls, truth): a new object, distinct from every object allocated before
NewObject(st, cls, truth, key) ==
    [ty |-> cls, val |-> truth, key |-> key,
     n |-> Cardinality({o \in st.heap : o.ty = cls /\ o.val = truth /\ o.key = key})]

Allocate(st, obj) ==
    [st EXCEPT !.heap = @ \cup {obj},
               !.flavor = [o \in st.heap \cup {obj} |-> IF o \in st.heap THEN st.flavor[o] ELSE Unset]]

SlotClasses == {"SBool", "Sub", "TF_Bool", "T_Bool", "F_Bool"}

\* attribute lookup cls._truthy / cls._falsy along the MRO
RECURSIVE Lookup(_, _, _)
Lookup(sl, cls, attr) ==
    IF cls \notin SlotClasses THEN Undefined
    ELSE IF sl[cls][attr] # Undefined THEN sl[cls][attr]
    ELSE Lookup(sl, Parent(cls), attr)

----------------------------------------------------------------------------
(* Constructors *)

\* a constructor that allocates on every call
SBool_new_nocache(cls, witness, st) ==
    LET attr == IF Truthy(witness) THEN "_truthy" ELSE "_falsy"
        truth == IF Truthy(witness) THEN 1 ELSE 0
        obj == NewObject(st, cls, truth, NoKey)
    IN  Ret(obj, [Allocate(st, obj) EXCEPT !.slots[cls][attr] = obj])

\* SBool.__new__(cls, witness, flavor), inherited by Sub
SBool_new(cls, witness, st) ==
    LET attr == IF Truthy(witness) THEN "_truthy" ELSE "_falsy"
        truth == IF Truthy(witness) THEN 1 ELSE 0
        obj == NewObject(st, cls, truth, NoKey)
        st1 == [Allocate(st, obj) EXCEPT !.slots[cls][attr] = obj]
    IN  IF Lookup(st.slots, cls, attr) = NoValue
        THEN Ret(Lookup(st1.slots, cls, attr), st1)
        ELSE Ret(Lookup(st.slots, cls, attr), st)

\* SBool.__init__(self, witness, flavor), inherited by Sub, TF_Bool, T_Bool, F_Bool
SBool_init(self, flavorArg, st) ==
    [st EXCEPT !.flavor[self] = IF flavorArg = Absent THEN NoValue ELSE flavorArg]

\* a constructor that allocates on every call
T_Bool_new_nocache(cls, st) ==
    LET obj == NewObject(st, cls, 1, NoKey)
    IN  Ret(obj, [Allocate(st, obj) EXCEPT !.slots[cls]["_truthy"] = obj])

\* T_Bool.__new__(cls, witness, flavor)
T_Bool_new(cls, st) ==
    LET obj == NewObject(st, cls, 1, NoKey)
        st1 == [Allocate(st, obj) EXCEPT !.slots[cls]["_truthy"] = obj]
    IN  IF Lookup(st.slots, cls, "_truthy") = NoValue
        THEN Ret(Lookup(st1.slots, cls, "_truthy"), st1)
        ELSE Ret(Lookup(st.slots, cls, "_truthy"), st)

\* F_Bool.__new__(cls, witness, flavor)
F_Bool_new(cls, st) ==
    LET obj == NewObject(st, cls, 0, NoKey)
        st1 == [Allocate(st, obj) EXCEPT !.slots[cls]["_falsy"] = obj]
    IN  IF Lookup(st.slots, cls, "_falsy") = NoValue
        THEN Ret(Lookup(st1.slots, cls, "_falsy"), st1)
        ELSE Ret(Lookup(st.slots, cls, "_falsy"), st)

\* FBool.__new__(cls, flavor, witness), inherited by SubF; both dicts belong to
\* FBool and are shared by its subclasses
FBool_new(cls, flavorArg, witness, st) ==
    LET key == KeyOf(flavorArg)
        truth == IF Truthy(witness) THEN 1 ELSE 0
        obj == NewObject(st, cls, truth, key)
        st1 == IF Truthy(witness)
               THEN [Allocate(st, obj) EXCEPT !.FBool_truthy = (key :> obj) @@ @]
               ELSE [Allocate(st, obj) EXCEPT !.FBool_falsy = (key :> obj) @@ @]
    IN  IF Truthy(witness)
        THEN IF key \notin DOMAIN st.FBool_truthy
             THEN Ret(st1.FBool_truthy[key], st1)
             ELSE Ret(st.FBool_truthy[key], st)
        ELSE IF key \notin DOMAIN st.FBool_falsy
             THEN Ret(st1.FBool_falsy[key], st1)
             ELSE Ret(st.FBool_falsy[key], st)

\* FBool.__init__(self, flavor, witness)
FBool_init(self, flavorArg, st) ==
    IF st.flavor[self] = Unset THEN [st EXCEPT !.flavor[self] = flavorArg] ELSE st

RECURSIVE Call(_, _, _, _)

\* a dispatching constructor that routes the wrong way
TF_Bool_new_swapped(witness, st) ==
    IF Truthy(witness) THEN Call("F_Bool", Absent, Absent, st)
    ELSE Call("T_Bool", Absent, Absent, st)

\* TF_Bool.__new__(cls, witness, flavor)
TF_Bool_new(witness, st) ==
    IF Truthy(witness) THEN Call("T_Bool", Absent, Absent, st)
    ELSE Call("F_Bool", Absent, Absent, st)

\* cls.__new__(cls, a1, a2) with the arguments bound as each class declares them
New(cls, a1, a2, st) ==
    CASE cls \in {"SBool", "Sub"} ->
            SBool_new(cls, IF a1 = Absent THEN PyFalse ELSE a1, st)
      [] cls \in {"FBool", "SubF"} ->
            IF a1 = Absent \/ a2 = Absent THEN Raise("TypeError", st)
            ELSE FBool_new(cls, a1, a2, st)
      [] cls = "TF_Bool" ->
            IF a1 = Absent THEN Raise("TypeError", st) ELSE TF_Bool_new(a1, st)
      [] cls = "T_Bool" -> T_Bool_new(cls, st)
      [] cls = "F_Bool" -> F_Bool_new(cls, st)
      [] OTHER -> Raise("TypeError", st)

\* type(obj).__init__(obj, a1, a2)
Initialize(obj, a1, a2, st) ==
    IF obj.ty \in {"FBool", "SubF"} THEN FBool_init(obj, a1, st)
    ELSE SBool_init(obj, a2, st)

\* the second half of type.__call__: when __new__ returned an instance of cls,
\* __init__ runs with the same arguments
CallInit(cls, a1, a2, r) ==
    IF r.out # "ret" THEN r
    ELSE IF IsInstance(r.val, cls) THEN Ret(r.val, Initialize(r.val, a1, a2, r.st))
    ELSE r

\* cls(a1, a2): type.__call__
Call(cls, a1, a2, st) == CallInit(cls, a1, a2, New(cls, a1, a2, st))

----------------------------------------------------------------------------
(* The ancestor resolver *)

TypeIncompatible == "TypeError"

\* latest_common_ancestor(a, b): the most derived class that both derive from
latest_common_ancestor(a, b) ==
    LET common == {i \in DOMAIN Mro(a) : Mro(a)[i] \in Range(Mro(b))}
        first == CHOOSE i \in common : \A j \in common : i <= j
    IN  IF Mro(a)[first] \in {"int", "object"} THEN TypeIncompatible ELSE Mro(a)[first]

----------------------------------------------------------------------------
(* Operators.  The eager operators are the methods __and__, __or__, __xor__ *)
(* and their reflected forms; depth counts the method frames on the stack.  *)

And(a, b) == Truthy(a) /\ Truthy(b)
Or(a, b) == Truthy(a) \/ Truthy(b)
Xor(a, b) == (Truthy(a) /\ ~Truthy(b)) \/ (Truthy(b) /\ ~Truthy(a))

\* SBool(inner), where inner is the outcome of base_class(1) or base_class(0)
SBool_of(inner) ==
    IF inner.out # "ret" THEN inner ELSE Call("SBool", inner.val, Absent, inner.st)

\* SBool(base_class(1)) / SBool(base_class(0)), the tail of SBool's operators
SBool_result(base_class, truth, st) ==
    SBool_of(Call(base_class, PyInt(IF truth THEN 1 ELSE 0), Absent, st))

\* SBool.__and__(self, other)
SBool_and(self, other, st) ==
    LET base_class == latest_common_ancestor(self.ty, other.ty)
    IN  IF base_class = TypeIncompatible THEN Raise("TypeError", st)
        ELSE SBool_result(base_class, And(self, other), st)

\* SBool.__or__(self, other)
SBool_or(self, other, st) ==
    LET base_class == latest_common_ancestor(self.ty, other.ty)
    IN  IF base_class = TypeIncompatible THEN Raise("TypeError", st)
        ELSE SBool_result(base_class, Or(self, other), st)

\* an exclusive or that computes an inclusive or
SBool_xor_asor(self, other, st) ==
    LET base_class == latest_common_ancestor(self.ty, other.ty)
    IN  IF base_class = TypeIncompatible THEN Raise("TypeError", st)
        ELSE SBool_result(base_class, Or(self, other), st)

\* SBool.__xor__(self, other)
SBool_xor(self, other, st) ==
    LET base_class == latest_common_ancestor(self.ty, other.ty)
    IN  IF base_class = TypeIncompatible THEN Raise("TypeError", st)
        ELSE SBool_result(base_class, Xor(self, other), st)

\* TF_Bool.__and__(self, other)
TF_Bool_and(self, other, st) ==
    IF And(self, other) THEN Call("T_Bool", Absent, Absent, st)
    ELSE Call("F_Bool", Absent, Absent, st)

\* an or that computes an and
TF_Bool_or_asand(self, other, st) ==
    IF And(self, other) THEN Call("T_Bool", Absent, Absent, st)
    ELSE Call("F_Bool", Absent, Absent, st)

\* TF_Bool.__or__(self, other)
TF_Bool_or(self, other, st) ==
    IF Or(self, other) THEN Call("T_Bool", Absent, Absent, st)
    ELSE Call("F_Bool", Absent, Absent, st)

\* an exclusive or that computes an inclusive or
TF_Bool_xor_asor(self, other, st) ==
    IF Or(self, other) THEN Call("T_Bool", Absent, Absent, st)
    ELSE Call("F_Bool", Absent, Absent, st)

\* TF_Bool.__xor__(self, other)
TF_Bool_xor(self, other, st) ==
    IF Xor(self, other) THEN Call("T_Bool", Absent, Absent, st)
    ELSE Call("F_Bool", Absent, Absent, st)

\* the class whose definition of a method an instance of ty runs; TF_Bool
\* defines __ror and __rxor (no trailing underscores), so __ror__ and __rxor__
\* of the closed pair are the ones inherited from SBool
Impl(ty, name) ==
    CASE ty \in {"FBool", "SubF"} -> "FBool"
      [] ty \in {"TF_Bool", "T_Bool", "F_Bool"} ->
            IF name \in {"__ror__", "__rxor__"} THEN "SBool" ELSE "TF_Bool"
      [] ty \in {"SBool", "Sub"} -> "SBool"
      [] OTHER -> "builtin"

Forward(op) ==
    CASE op = "&" -> "__and__" [] op = "|" -> "__or__" [] op = "^" -> "__xor__"

Reflected(op) ==
    CASE op = "&" -> "__rand__" [] op = "|" -> "__ror__" [] op = "^" -> "__rxor__"

\* a op b as the interpreter dispatches it: the method that runs, with its self
\* and other.  The reflected method of the right operand runs first when its
\* class is a proper subclass of the left operand's class that overrides it (so
\* an int on the left defers to every class of the hierarchy), and it is the
\* only candidate when the left operand has no such operator (str).  A bool on
\* the left is not a base of the hierarchy: its own operator runs
Dispatch(op, a, b) ==
    IF a.ty \in HierarchyTypes
    THEN IF /\ b.ty # a.ty
            /\ IsSubclass(b.ty, a.ty)
            /\ Impl(b.ty, Reflected(op)) # Impl(a.ty, Reflected(op))
         THEN [name |-> Reflected(op), self |-> b, other |-> a]
         ELSE [name |-> Forward(op), self |-> a, other |-> b]
    ELSE IF a.ty = "bool"
    THEN [name |-> Forward(op), self |-> a, other |-> b]
    ELSE [name |-> Reflected(op), self |-> b, other |-> a]

\* bool.__and__ / __or__ / __xor__ with an operand that is an int but not a
\* bool: the operator of int, whose result is a plain int
bool_op(name, self, other, st) ==
    IF other.ty \notin HierarchyTypes \cup {"int", "bool"} THEN Raise("TypeError", st)
    ELSE CASE name = "__and__" -> Ret(PyInt(IF And(self, other) THEN 1 ELSE 0), st)
           [] name = "__or__" -> Ret(PyInt(IF Or(self, other) THEN 1 ELSE 0), st)
           [] name = "__xor__" -> Ret(PyInt(IF Xor(self, other) THEN 1 ELSE 0), st)
           [] OTHER -> Raise("TypeError", st)

\* a method that ends in `return <another call>`: the call it makes next
TailCall(frame, st) == [out |-> "call", val |-> None, st |-> st, frame |-> frame]

\* the branches of FBool.__and__ / __or__ / __xor__ for an FBool operand:
\* truth1 is the test of the first isinstance branch, truth2 of the second
FBool_same(self, other, truth1, truth2, st) ==
    LET sf == st.flavor[self]
        of == st.flavor[other]
    IN  IF sf = Unset \/ of = Unset THEN Raise("AttributeError", st)
        ELSE IF IsInstance(sf, of.ty) THEN Call("FBool", of, PyBool(truth1), st)
        ELSE IF IsInstance(of, sf.ty) THEN Call("FBool", sf, PyBool(truth2), st)
        ELSE Raise("fallthrough", st)

\* self <op> wrapped, where wrapped is the outcome of SBool(other)
FBool_tail(op, self, wrapped) ==
    TailCall(Dispatch(op, self, wrapped.val), wrapped.st)

\* return self <op> SBool(other), the last line of FBool's operators
FBool_wrap(op, self, other, st) ==
    FBool_tail(op, self, Call("SBool", other, Absent, st))

\* FBool.__and__(self, other); same is the outcome of its isinstance branches
FBool_and_rest(self, other, st, same) ==
    IF IsInstance(other, "FBool")
    THEN IF same.out = "fallthrough" THEN Call("SBool", other, Absent, st) ELSE same
    ELSE FBool_wrap("&", self, other, st)

FBool_and(self, other, st) ==
    FBool_and_rest(self, other, st,
                   FBool_same(self, other, And(self, other), And(self, other), st))

\* FBool.__or__(self, other); same is the outcome of its isinstance branches
FBool_or_rest(self, other, st, same) ==
    IF IsInstance(other, "FBool") /\ same.out # "fallthrough" THEN same
    ELSE FBool_wrap("|", self, other, st)

FBool_or(self, other, st) ==
    FBool_or_rest(self, other, st,
                  FBool_same(self, other, Or(self, other), Or(self, other), st))

\* FBool.__xor__(self, other); same is the outcome of its isinstance branches
FBool_xor_rest(self, other, st, same) ==
    IF IsInstance(other, "FBool") /\ same.out # "fallthrough" THEN same
    ELSE FBool_wrap("|", self, other, st)

\* an exclusive or that computes an inclusive or
FBool_xor_asor(self, other, st) ==
    FBool_xor_rest(self, other, st,
                   FBool_same(self, other, Or(self, other), Or(self, other), st))

FBool_xor(self, other, st) ==
    FBool_xor_rest(self, other, st,
                   FBool_same(self, other, Or(self, other) /\ ~And(self, other),
                              Or(self, other), st))

\* the body of the method frame.name of frame.self: its result, or the call
\* it ends in
Body(frame, st) ==
    LET name == frame.name
        self == frame.self
        other == frame.other
        impl == Impl(self.ty, name)
    IN  CASE impl = "SBool" /\ name = "__and__" -> SBool_and(self, other, st)
          [] impl = "SBool" /\ name = "__or__" -> SBool_or(self, other, st)
          [] impl = "SBool" /\ name = "__xor__" -> SBool_xor(self, other, st)
          [] impl = "SBool" /\ name \in {"__rand__", "__ror__", "__rxor__"} ->
                 TailCall([frame EXCEPT !.name = "__and__"], st)
          [] impl = "TF_Bool" /\ name = "__and__" -> TF_Bool_and(self, other, st)
          [] impl = "TF_Bool" /\ name = "__or__" -> TF_Bool_or(self, other, st)
          [] impl = "TF_Bool" /\ name = "__xor__" -> TF_Bool_xor(self, other, st)
          [] impl = "TF_Bool" /\ name = "__rand__" ->
                 TailCall([frame EXCEPT !.name = "__and__"], st)
          [] impl = "FBool" /\ name = "__and__" -> FBool_and(self, other, st)
          [] impl = "FBool" /\ name = "__or__" -> FBool_or(self, other, st)
          [] impl = "FBool" /\ name = "__xor__" -> FBool_xor(self, other, st)
          [] impl = "FBool" /\ name = "__rand__" -> TailCall(Dispatch("&", self, other), st)
          [] impl = "FBool" /\ name = "__ror__" -> TailCall(Dispatch("|", self, other), st)
          [] impl = "FBool" /\ name = "__rxor__" -> TailCall(Dispatch("^", self, other), st)
          [] impl = "builtin" /\ self.ty = "bool" -> bool_op(name, self, other, st)
          [] OTHER -> Raise("TypeError", st)

\* run a method call to its end; depth counts the frames on the stack, and the
\* interpreter raises RecursionError when it reaches RecursionLimit
RECURSIVE Run(_, _, _)

\* r is what the running frame's body came to
Continue(r, depth) ==
    IF r.out = "call" THEN Run(r.frame, r.st, depth + 1) ELSE r

Run(frame, st, depth) ==
    IF depth >= RecursionLimit THEN Raise("RecursionError", st)
    ELSE Continue(Body(frame, st), depth)

\* a op b
BinOp(op, a, b, st) == Run(Dispatch(op, a, b), st, 0)

\* SBool.__invert__(self)
SBool_invert(self, st) ==
    IF Truthy(self) THEN Call(self.ty, PyFalse, Absent, st)
    ELSE Call(self.ty, PyTrue, Absent, st)

\* an invert that always answers with the truthy value
FBool_invert_truthy(self, st) ==
    IF st.flavor[self] = Unset THEN Raise("AttributeError", st)
    ELSE Call("FBool", st.flavor[self], PyTrue, st)

\* FBool.__invert__(self)
FBool_invert(self, st) ==
    IF st.flavor[self] = Unset THEN Raise("AttributeError", st)
    ELSE IF Truthy(self) THEN Call("FBool", st.flavor[self], PyFalse, st)
    ELSE Call("FBool", st.flavor[self], PyTrue, st)

\* an invert that keeps the truth
TF_Bool_invert_same(self, st) ==
    IF Truthy(self) THEN Call("T_Bool", Absent, Absent, st)
    ELSE Call("F_Bool", Absent, Absent, st)

\* TF_Bool.__invert__(self)
TF_Bool_invert(self, st) ==
    IF Truthy(self) THEN Call("F_Bool", Absent, Absent, st)
    ELSE Call("T_Bool", Absent, Absent, st)

\* ~x, which is also snot(x)
Invert(self, st) ==
    CASE Impl(self.ty, "__invert__") = "SBool" -> SBool_invert(self, st)
      [] Impl(self.ty, "__invert__") = "FBool" -> FBool_invert(self, st)
      [] Impl(self.ty, "__invert__") = "TF_Bool" -> TF_Bool_invert(self, st)
      [] OTHER -> Raise("TypeError", st)

----------------------------------------------------------------------------
(* The main thread: constructor calls, ~ and the eager operators, each run  *)
(* to completion.  Init is the state the class bodies leave; the module     *)
(* constants are bound by the import actions.                               *)

Witnesses == {PyTrue, PyFalse, PyInt(1), PyInt(0), Absent}
Flavors == {PyInt(0), PyInt(1), PyTrue, PyStr(1)}
Outside == {PyInt(1), PyInt(0), PyTrue, PyStr(1)}
Ops == {"&", "|", "^"}

Threads == 1 .. NumThreads

InitCache ==
    /\ slots = [c \in SlotClasses |->
                  [a \in {"_truthy", "_falsy"} |->
                      IF \/ c = "SBool"
                         \/ c = "T_Bool" /\ a = "_truthy"
                         \/ c = "F_Bool" /\ a = "_falsy"
                      THEN NoValue ELSE Undefined]]
    /\ FBool_truthy = <<>>
    /\ FBool_falsy = <<>>
    /\ heap = {}
    /\ flavor = <<>>
    /\ consts = [TRUTH |-> None, LIE |-> None, ALWAYS |-> None, NEVER_EVER |-> None]

NoCall == [op |-> "none", cls |-> "none", a |-> None, b |-> None, out |-> "none", val |-> None]
Idle == [cls |-> "none", a1 |-> None, a2 |-> None, obj |-> None, first |-> FALSE]

Init ==
    /\ InitCache
    /\ last = NoCall
    /\ ncalls = 0
    /\ pc = [t \in Threads |-> "idle"]
    /\ call = [t \in Threads |-> Idle]
    /\ locks = [l \in {"SBool._truthy_lock", "SBool._falsy_lock",
                       "FBool._truthy_lock", "FBool._falsy_lock",
                       "T_Bool._lock", "F_Bool._lock"} |-> 0]
    /\ returned = {}

\* the class whose __new__ allocates: TF_Bool(witness) is T_Bool() or F_Bool()
Target(c) ==
    IF c.cls = "TF_Bool" THEN (IF Truthy(c.a1) THEN "T_Bool" ELSE "F_Bool") ELSE c.cls

\* the witness of the call: FBool takes the flavor first and the witness second
WitnessOf(c) ==
    CASE Target(c) \in {"FBool", "SubF"} -> c.a2
      [] Target(c) = "T_Bool" -> PyTrue
      [] Target(c) = "F_Bool" -> PyFalse
      [] OTHER -> c.a1

AttrOf(c) == IF Truthy(WitnessOf(c)) THEN "_truthy" ELSE "_falsy"

IsFlavored(c) == Target(c) \in {"FBool", "SubF"}

\* what a finished constructor call hands to its caller
Outcome(c) ==
    [cls |-> c.cls, truth |-> IF Truthy(WitnessOf(c)) THEN 1 ELSE 0,
     key |-> IF IsFlavored(c) THEN KeyOf(c.a1) ELSE NoKey, obj |-> c.obj]

Store(st) ==
    /\ slots' = st.slots
    /\ FBool_truthy' = st.FBool_truthy
    /\ FBool_falsy' = st.FBool_falsy
    /\ heap' = st.heap
    /\ flavor' = st.flavor

Record(op, cls, a, b, r) ==
    /\ ncalls < MaxCalls
    /\ Store(r.st)
    /\ last' = [op |-> op, cls |-> cls, a |-> a, b |-> b, out |-> r.out, val |-> r.val]
    /\ ncalls' = ncalls + 1
    /\ returned' = IF op = "new" /\ r.out = "ret"
                   THEN returned \cup {Outcome([cls |-> cls, a1 |-> a, a2 |-> b, obj |-> r.val])}
                   ELSE returned
    /\ UNCHANGED <<consts, pc, call, locks>>

\* two module-level assignments: name1 = <first>; name2 = cls2(False)
Bind1(name, r) ==
    /\ Store(r.st)
    /\ consts' = [consts EXCEPT ![name] = r.val]

Bind2(name1, first, name2, cls2) ==
    /\ Store(Call(cls2, PyFalse, Absent, first.st).st)
    /\ consts' = [consts EXCEPT ![name1] = first.val,
                                ![name2] = Call(cls2, PyFalse, Absent, first.st).val]

\* subtypable.py: TRUTH = SBool(True); LIE = SBool(False)
ImportSubtypable ==
    /\ consts.TRUTH = None
    /\ Bind2("TRUTH", Call("SBool", PyTrue, Absent, St), "LIE", "SBool")
    /\ UNCHANGED <<last, ncalls, pc, call, locks, returned>>

\* true_false.py (which imports subtypable): ALWAYS = T_Bool(); NEVER_EVER = F_Bool()
ImportTrueFalse ==
    /\ consts.TRUTH # None
    /\ consts.ALWAYS = None
    /\ Bind2("ALWAYS", Call("T_Bool", Absent, Absent, St), "NEVER_EVER", "F_Bool")
    /\ UNCHANGED <<last, ncalls, pc, call, locks, returned>>

\* SBool(witness), SBool(witness, flavor), Sub(witness), ...
NewSBool(classes) ==
    \E cls \in classes, w \in Witnesses, f \in {Absent, PyStr(1)} :
        Record("new", cls, w, f, Call(cls, w, f, St))

\* FBool(flavor, witness), SubF(flavor, witness); truthy(f) and falsy(f) are
\* FBool(f, True) and FBool(f, False)
NewFBool(classes) ==
    \E cls \in classes, f \in Flavors, w \in {PyTrue, PyInt(0)} :
        Record("new", cls, f, w, Call(cls, f, w, St))

\* TF_Bool(witness), T_Bool(), T_Bool(witness), F_Bool(), F_Bool(witness)
NewTF ==
    \E cls \in {"TF_Bool", "T_Bool", "F_Bool"}, w \in {Absent, PyTrue, PyFalse} :
        Record("new", cls, w, Absent, Call(cls, w, Absent, St))

\* ~x or snot(x) on a value a constructor or operator has returned
InvertCall ==
    \E x \in heap : Record("~", x.ty, x, None, Invert(x, St))

\* a op b with at least one operand of the hierarchy; outside are the other
\* operands the program uses
BinOpCall(outside) ==
    \E op \in Ops, a \in heap \cup outside, b \in heap \cup outside :
        /\ a \in heap \/ b \in heap
        /\ Record(op, a.ty, a, b, BinOp(op, a, b, St))

\* programs that use every class of the hierarchy
Next ==
    \/ ImportSubtypable
    \/ ImportTrueFalse
    \/ NewSBool({"SBool", "Sub"})
    \/ NewFBool({"FBool", "SubF"})
    \/ NewTF
    \/ InvertCall
    \/ BinOpCall({})

Spec == Init /\ [][Next]_vars

\* programs that use SBool, a subclass of it, and values from outside the hierarchy
NextS ==
    \/ ImportSubtypable
    \/ NewSBool({"SBool", "Sub"})
    \/ InvertCall
    \/ BinOpCall(Outside)

SpecS == Init /\ [][NextS]_vars

\* programs that use FBool, the SBool constants, and values from outside the hierarchy
NextF ==
    \/ ImportSubtypable
    \/ NewFBool({"FBool"})
    \/ InvertCall
    \/ BinOpCall(Outside)

SpecF == Init /\ [][NextF]_vars

\* an equality that compares identities
int_eq_identity(a, b) == a = b

\* a == b: no class of the hierarchy defines __eq__, so int.__eq__ compares the
\* integer payloads
int_eq(a, b) == a.val = b.val

\* a is b: the same object
Is(a, b) == a = b

\* a == b and a is b on values of the hierarchy
CompareCall ==
    \E a \in heap, b \in heap :
        \/ Record("==", a.ty, a, b, Ret(PyBool(int_eq(a, b)), St))
        \/ Record("is", a.ty, a, b, Ret(PyBool(Is(a, b)), St))

\* constructors of every family and comparisons of their values
NextE ==
    \/ ImportSubtypable
    \/ ImportTrueFalse
    \/ NewSBool({"SBool", "Sub"})
    \/ NewFBool({"FBool", "SubF"})
    \/ NewTF
    \/ CompareCall

SpecE == Init /\ [][NextE]_vars

\* the closed pair, with the plain SBool constants and operands from outside
NextT ==
    \/ ImportSubtypable
    \/ ImportTrueFalse
    \/ NewTF
    \/ InvertCall
    \/ BinOpCall(Outside)

SpecT == Init /\ [][NextT]_vars

----------------------------------------------------------------------------
(* Threads calling constructors concurrently.  A constructor call goes       *)
(* through the statements of __new__ one at a time, then through __init__.   *)

\* the lock the `with` statement of the call's branch takes
LockOf(c) ==
    CASE IsFlavored(c) -> "FBool." \o AttrOf(c) \o "_lock"
      [] Target(c) \in {"T_Bool", "F_Bool"} -> Target(c) \o "._lock"
      [] OTHER -> "SBool." \o AttrOf(c) \o "_lock"

\* a test that finds the cache empty whatever it holds
Missing_always(c) == TRUE

\* `cls._truthy is _novalue`, `flavor not in cls._truthy` and their falsy forms
Missing(c) ==
    IF IsFlavored(c)
    THEN KeyOf(c.a1) \notin DOMAIN (IF AttrOf(c) = "_truthy" THEN FBool_truthy ELSE FBool_falsy)
    ELSE Lookup(slots, Target(c), AttrOf(c)) = NoValue

\* `cls._truthy`, `cls._truthy[flavor]` and their falsy forms
Cached(c) ==
    IF IsFlavored(c)
    THEN (IF AttrOf(c) = "_truthy" THEN FBool_truthy ELSE FBool_falsy)[KeyOf(c.a1)]
    ELSE Lookup(slots, Target(c), AttrOf(c))

\* a `with lock:` that never waits
CanAcquire_always(lk, l) == TRUE

\* `with lock:` enters when no thread holds the lock
CanAcquire(lk, l) == lk[l] = 0

UNCHANGED_cache == UNCHANGED <<slots, FBool_truthy, FBool_falsy, heap, flavor>>
UNCHANGED_main == UNCHANGED <<consts, last, ncalls>>

Goto(t, where) ==
    /\ pc' = [pc EXCEPT ![t] = where]
    /\ UNCHANGED <<call, locks, returned>>
    /\ UNCHANGED_cache
    /\ UNCHANGED_main

\* thread t calls cls(a1, a2)
Begin(t, calls) ==
    /\ pc[t] = "idle"
    /\ \E c \in calls :
          call' = [call EXCEPT ![t] = [cls |-> c[1], a1 |-> c[2], a2 |-> c[3],
                                      obj |-> None, first |-> FALSE]]
    /\ pc' = [pc EXCEPT ![t] = "check"]
    /\ UNCHANGED <<locks, returned>>
    /\ UNCHANGED_cache
    /\ UNCHANGED_main

\* a constructor without the unlocked test: every call goes for the lock
Check_locking(t) ==
    /\ pc[t] = "check"
    /\ pc' = [pc EXCEPT ![t] = "acquire"]
    /\ call' = [call EXCEPT ![t].first = Missing(call[t])]
    /\ UNCHANGED <<locks, returned>>
    /\ UNCHANGED_cache
    /\ UNCHANGED_main

\* the unlocked test: if cls._truthy is _novalue / if flavor not in cls._truthy
Check(t) ==
    /\ pc[t] = "check"
    /\ pc' = [pc EXCEPT ![t] = IF Missing(call[t]) THEN "acquire" ELSE "return"]
    /\ call' = [call EXCEPT ![t].first = Missing(call[t])]
    /\ UNCHANGED <<locks, returned>>
    /\ UNCHANGED_cache
    /\ UNCHANGED_main

\* with cls._truthy_lock:
Acquire(t) ==
    /\ pc[t] = "acquire"
    /\ CanAcquire(locks, LockOf(call[t]))
    /\ locks' = [locks EXCEPT ![LockOf(call[t])] = t]
    /\ pc' = [pc EXCEPT ![t] = "recheck"]
    /\ UNCHANGED <<call, returned>>
    /\ UNCHANGED_cache
    /\ UNCHANGED_main

\* the locked branch without its second test
Recheck_skipped(t) ==
    /\ pc[t] = "recheck"
    /\ Goto(t, "create")

\* the test repeated under the lock
Recheck(t) ==
    /\ pc[t] = "recheck"
    /\ Goto(t, IF Missing(call[t]) THEN "create" ELSE "release")

\* cls._truthy = super().__new__(cls, 1) / cls._truthy[flavor] = ...
Create(t) ==
    /\ pc[t] = "create"
    /\ LET c == call[t]
           truth == IF Truthy(WitnessOf(c)) THEN 1 ELSE 0
           obj == NewObject(St, Target(c), truth, IF IsFlavored(c) THEN KeyOf(c.a1) ELSE NoKey)
           st == Allocate(St, obj)
       IN  /\ heap' = st.heap
           /\ flavor' = st.flavor
           /\ IF IsFlavored(c)
              THEN /\ FBool_truthy' = IF AttrOf(c) = "_truthy"
                                      THEN (KeyOf(c.a1) :> obj) @@ FBool_truthy
                                      ELSE FBool_truthy
                   /\ FBool_falsy' = IF AttrOf(c) = "_falsy"
                                     THEN (KeyOf(c.a1) :> obj) @@ FBool_falsy
                                     ELSE FBool_falsy
                   /\ slots' = slots
              ELSE /\ slots' = [slots EXCEPT ![Target(c)][AttrOf(c)] = obj]
                   /\ UNCHANGED <<FBool_truthy, FBool_falsy>>
    /\ pc' = [pc EXCEPT ![t] = "release"]
    /\ UNCHANGED <<call, locks, returned>>
    /\ UNCHANGED_main

\* a with block that leaves without releasing its lock
Release_keeping(t) ==
    /\ pc[t] = "release"
    /\ Goto(t, "return")

\* leaving the with block releases the lock
Release(t) ==
    /\ pc[t] = "release"
    /\ locks' = [locks EXCEPT ![LockOf(call[t])] = 0]
    /\ pc' = [pc EXCEPT ![t] = "return"]
    /\ UNCHANGED <<call, returned>>
    /\ UNCHANGED_cache
    /\ UNCHANGED_main

\* return cls._truthy / return cls._truthy[flavor]
Return(t) ==
    /\ pc[t] = "return"
    /\ call' = [call EXCEPT ![t].obj = Cached(call[t])]
    /\ pc' = [pc EXCEPT ![t] = "init"]
    /\ UNCHANGED <<locks, returned>>
    /\ UNCHANGED_cache
    /\ UNCHANGED_main

Finish(t) ==
    /\ returned' = returned \cup {Outcome(call[t])}
    /\ pc' = [pc EXCEPT ![t] = "idle"]
    /\ call' = [call EXCEPT ![t] = Idle]
    /\ UNCHANGED locks
    /\ UNCHANGED_main

\* __init__ of the returned object, when it is an instance of the called class:
\* SBool.__init__ assigns _flavor; FBool.__init__ first tests hasattr
InitCall(t) ==
    /\ pc[t] = "init"
    /\ LET c == call[t]
       IN  IF ~IsInstance(c.obj, c.cls)
           THEN Finish(t) /\ UNCHANGED_cache
           ELSE IF c.obj.ty \in {"FBool", "SubF"}
           THEN IF flavor[c.obj] = Unset
                THEN Goto(t, "setflavor")
                ELSE Finish(t) /\ UNCHANGED_cache
           ELSE /\ Finish(t)
                /\ flavor' = SBool_init(c.obj, c.a2, St).flavor
                /\ UNCHANGED <<slots, FBool_truthy, FBool_falsy, heap>>

\* an __init__ that returns without assigning _flavor
SetFlavor_skipped(t) ==
    /\ pc[t] = "setflavor"
    /\ Finish(t)
    /\ UNCHANGED_cache

\* FBool.__init__: self._flavor = flavor
SetFlavor(t) ==
    /\ pc[t] = "setflavor"
    /\ Finish(t)
    /\ flavor' = [flavor EXCEPT ![call[t].obj] = call[t].a1]
    /\ UNCHANGED <<slots, FBool_truthy, FBool_falsy, heap>>

SlotCalls ==
    {<<"SBool", PyTrue, Absent>>, <<"SBool", PyInt(0), Absent>>,
     <<"T_Bool", Absent, Absent>>, <<"F_Bool", Absent, Absent>>}

FlavoredCalls ==
    {<<"FBool", f, PyTrue>> : f \in {PyInt(1), PyTrue, PyStr(1)}}
        \cup {<<"FBool", PyStr(1), PyInt(0)>>}

Step(t) ==
    \/ Check(t)
    \/ Acquire(t)
    \/ Recheck(t)
    \/ Create(t)
    \/ Release(t)
    \/ Return(t)
    \/ InitCall(t)

\* threads constructing SBool, T_Bool and F_Bool
NextThreads == \E t \in Threads : Begin(t, SlotCalls) \/ Step(t)

SpecThreads == Init /\ [][NextThreads]_vars

\* threads constructing FBool
NextFThreads == \E t \in Threads : Begin(t, FlavoredCalls) \/ Step(t) \/ SetFlavor(t)

SpecFThreads == Init /\ [][NextFThreads]_vars

MixedCalls ==
    {<<"SBool", PyTrue, Absent>>, <<"TF_Bool", PyTrue, Absent>>,
     <<"T_Bool", Absent, Absent>>, <<"F_Bool", Absent, Absent>>,
     <<"FBool", PyInt(1), PyTrue>>, <<"FBool", PyStr(1), PyTrue>>}

\* threads constructing values of every family; a thread that is inside a
\* constructor call is scheduled again and again until the call returns
NextFair == \E t \in 1 .. FairThreads : Begin(t, MixedCalls) \/ Step(t) \/ SetFlavor(t)

SpecFair ==
    /\ Init
    /\ [][NextFair]_vars
    /\ \A t \in 1 .. FairThreads : WF_vars(Step(t) \/ SetFlavor(t))

\* one constructor call of each class
LiveCalls ==
    {<<"SBool", PyTrue, Absent>>, <<"TF_Bool", PyTrue, Absent>>,
     <<"T_Bool", Absent, Absent>>, <<"F_Bool", Absent, Absent>>,
     <<"FBool", PyInt(1), PyTrue>>}

\* threads calling each constructor, every thread inside a call being
\* scheduled again and again until the call returns
NextLive == \E t \in 1 .. FairThreads : Begin(t, LiveCalls) \/ Step(t) \/ SetFlavor(t)

SpecLive ==
    /\ Init
    /\ [][NextLive]_vars
    /\ \A t \in 1 .. FairThreads : WF_vars(Step(t) \/ SetFlavor(t))

----------------------------------------------------------------------------
(* Properties *)

\* the constructor calls that have handed an object to their caller, those of
\* threads still inside __init__ included
Results ==
    returned \cup {Outcome(call[t]) : t \in {u \in Threads : pc[u] \in {"init", "setflavor"}}}

\* the truth value of a op b
Expected(op, a, b) ==
    CASE op = "&" -> IF And(a, b) THEN 1 ELSE 0
      [] op = "|" -> IF Or(a, b) THEN 1 ELSE 0
      [] op = "^" -> IF Xor(a, b) THEN 1 ELSE 0

\* last is a finished a op b
IsBinOp == last.op \in Ops

\* C1: when threads construct SBool, T_Bool or F_Bool concurrently for the
\* first time, every thread calling the same class with the same truth gets
\* the same object, and only one object of that class and truth is created.
C1_ConcurrentSameObject ==
    /\ \A r1, r2 \in Results :
          r1.cls = r2.cls /\ r1.truth = r2.truth => r1.obj = r2.obj
    /\ \A r \in Results : r.obj \in heap /\ r.obj.ty = r.cls /\ r.obj.val = r.truth
    /\ \A o1, o2 \in heap : o1.ty = o2.ty /\ o1.val = o2.val => o1 = o2

\* two threads that both found SBool's truthy slot empty hold the same object
C1_Witness ==
    \E t1, t2 \in Threads :
        /\ t1 # t2
        /\ pc[t1] = "init" /\ pc[t2] = "init"
        /\ call[t1].first /\ call[t2].first
        /\ call[t1].cls = "SBool" /\ call[t2].cls = "SBool"
        /\ Truthy(call[t1].a1) /\ Truthy(call[t2].a1)
        /\ call[t1].obj = call[t2].obj
        /\ call[t1].obj \in heap

\* C2: when threads construct FBool concurrently for the first time, every
\* thread calling with the same flavor and truth gets the same object, also
\* while other flavors are being inserted into the same dictionary.
C2_ConcurrentSameFlavored ==
    /\ \A r1, r2 \in Results :
          r1.key = r2.key /\ r1.truth = r2.truth => r1.obj = r2.obj
    /\ \A r \in Results :
          /\ r.obj \in heap
          /\ r.obj.ty = "FBool" /\ r.obj.val = r.truth /\ r.obj.key = r.key
          /\ r.obj = (IF r.truth = 1 THEN FBool_truthy ELSE FBool_falsy)[r.key]
    /\ \A o1, o2 \in heap : o1.val = o2.val /\ o1.key = o2.key => o1 = o2

\* two threads that both found the flavor missing hold the same object while a
\* third thread is inserting another flavor into the same dictionary
C2_Witness ==
    \E t1, t2, t3 \in Threads :
        /\ t1 # t2 /\ t1 # t3 /\ t2 # t3
        /\ pc[t1] \in {"init", "setflavor"} /\ pc[t2] \in {"init", "setflavor"}
        /\ call[t1].first /\ call[t2].first
        /\ KeyOf(call[t1].a1) = KeyOf(call[t2].a1)
        /\ Truthy(call[t1].a2) /\ Truthy(call[t2].a2)
        /\ call[t1].obj = call[t2].obj
        /\ pc[t3] \in {"acquire", "recheck", "create"}
        /\ KeyOf(call[t3].a1) # KeyOf(call[t1].a1)
        /\ Truthy(call[t3].a2)

\* C3 as the specification states it: each exact type has at most one truthy
\* and at most one falsy instance, and constructor calls with equal truthiness
\* (for FBool, equal flavor) return the identical object, SBool(1), SBool(True)
\* and TRUTH being one object, SBool(0), SBool(False) and LIE another.
C3_OnePairPerType ==
    /\ \A o1, o2 \in heap : o1.ty = o2.ty /\ o1.val = o2.val => o1 = o2
    /\ \A r1, r2 \in returned :
          r1.cls = r2.cls /\ r1.truth = r2.truth /\ r1.key = r2.key => r1.obj = r2.obj
    /\ consts.TRUTH # None =>
          \A r \in returned :
              r.cls = "SBool" => r.obj = (IF r.truth = 1 THEN consts.TRUTH ELSE consts.LIE)

\* C3: each exact type has, for each flavor, at most one truthy and at most one
\* falsy instance (types without flavors have one pair), and constructor calls
\* of one class with equal truthiness and equal flavor return the identical
\* object; SBool(1), SBool(True) and TRUTH are one object, SBool(0),
\* SBool(False) and LIE another.
C3_OnePairPerTypeAndFlavor ==
    /\ \A o1, o2 \in heap :
          o1.ty = o2.ty /\ o1.val = o2.val /\ o1.key = o2.key => o1 = o2
    /\ \A r1, r2 \in returned :
          r1.cls = r2.cls /\ r1.truth = r2.truth /\ r1.key = r2.key => r1.obj = r2.obj
    /\ consts.TRUTH # None =>
          \A r \in returned :
              r.cls = "SBool" => r.obj = (IF r.truth = 1 THEN consts.TRUTH ELSE consts.LIE)

\* SBool(1) has just returned TRUTH, which SBool(True) created, while FBool
\* holds truthy instances of two flavors
C3_Witness ==
    /\ consts.TRUTH # None
    /\ last.op = "new" /\ last.cls = "SBool" /\ last.a = PyInt(1)
    /\ last.val = consts.TRUTH
    /\ Cardinality({o \in heap : o.ty = "FBool" /\ o.val = 1}) = 2

\* C4: a subclass that inherits the constructor of SBool or FBool gets its own
\* singleton pair: its constructor returns objects whose exact type is the
\* subclass, never the parent's, and the parent's constructor never returns
\* the subclass's, whichever of the two was constructed first.
C4_SubclassOwnPair ==
    \A r \in returned : r.cls \in {"SBool", "Sub", "FBool", "SubF"} => r.obj.ty = r.cls

\* C5: SBool's &, | and ^ on two values whose exact types have the common
\* ancestor A return the truthy or falsy singleton of exactly A, with the truth
\* of and, or, xor of the operands.
C5_ResultOfExactlyAncestor ==
    (/\ IsBinOp
     /\ last.a \in heap /\ last.b \in heap
     /\ Impl(last.a.ty, "__and__") = "SBool" /\ Impl(last.b.ty, "__and__") = "SBool"
     /\ latest_common_ancestor(last.a.ty, last.b.ty) # TypeIncompatible)
    => /\ last.out = "ret"
       /\ last.val.ty = latest_common_ancestor(last.a.ty, last.b.ty)
       /\ last.val.val = Expected(last.op, last.a, last.b)
       /\ last.val = Lookup(slots, last.val.ty,
                            IF last.val.val = 1 THEN "_truthy" ELSE "_falsy")

\* last combined two FBool values
BothFlavored ==
    /\ IsBinOp
    /\ last.a \in heap /\ last.b \in heap
    /\ last.a.ty = "FBool" /\ last.b.ty = "FBool"

\* last.val is the plain SBool singleton with the truth of last.a op last.b
PlainResult ==
    /\ last.out = "ret"
    /\ last.val.ty = "SBool"
    /\ last.val.val = Expected(last.op, last.a, last.b)
    /\ last.val = slots["SBool"][IF last.val.val = 1 THEN "_truthy" ELSE "_falsy"]

\* C6: &, | and ^ on two FBool values of different flavors return the plain
\* SBool singleton with the truth of and, or, xor of the operands, and never
\* raise.
C6_DifferentFlavorsGivePlain ==
    (BothFlavored /\ last.a.key # last.b.key) => PlainResult

C8_FlavoredWithPlain ==
    (/\ IsBinOp
     /\ last.a \in heap /\ last.b \in heap
     /\ {last.a.ty, last.b.ty} = {"FBool", "SBool"})
    => PlainResult

\* C9: every constructor call, ~ and binary operator on values of the
\* hierarchy returns or raises after finitely many steps; FBool's operators
\* given a non-FBool operand, or an FBool whose flavor is of an unrelated type,
\* do not call themselves without bound.
C9_Terminates == last.out # "RecursionError"

\* C10: &, | and ^ on plain SBool values a and b return the SBool singleton with
\* the truth of a and b, a or b, a xor b; SBool(True) ^ SBool(True) is
\* SBool(False).
C10_PlainTruthTables ==
    (/\ IsBinOp
     /\ last.a \in heap /\ last.b \in heap
     /\ last.a.ty = "SBool" /\ last.b.ty = "SBool")
    => /\ PlainResult
       /\ last.val \in heap
       /\ \A r \in returned :
             r.cls = "SBool" /\ r.truth = last.val.val => r.obj = last.val

\* TRUTH ^ TRUTH has returned LIE
C10_Witness ==
    /\ consts.TRUTH # None
    /\ last.op = "^"
    /\ last.a = consts.TRUTH /\ last.b = consts.TRUTH
    /\ last.out = "ret"
    /\ last.val = consts.LIE

\* C11: for every pair of FBool values, whatever their flavors, a & b, a | b
\* and a ^ b have the truth of the and, or, xor of the operands' truths,
\* whatever the type of the result.
C11_FlavoredTruthTables ==
    (BothFlavored /\ last.out = "ret") => last.val.val = Expected(last.op, last.a, last.b)

\* last combined a value of one of the types in tys with a value from outside
\* the hierarchy, in either order
WithOutsider(tys) ==
    /\ IsBinOp
    /\ \/ last.a \in heap /\ last.a.ty \in tys /\ last.b \in Outside
       \/ last.b \in heap /\ last.b.ty \in tys /\ last.a \in Outside

\* C12: &, | and ^ on an SBool value and a plain int, a bool or a str raise
\* TypeError and never return a value.
C12_OutsiderRaises == WithOutsider({"SBool"}) => last.out = "TypeError"

\* C13: &, | and ^ on T_Bool() or F_Bool() and a value outside the hierarchy
\* raise TypeError, as the same combination does for a plain SBool.
C13_ClosedPairOutsiderRaises ==
    WithOutsider({"T_Bool", "F_Bool"}) => last.out = "TypeError"

\* C14: &, | and ^ on T_Bool() or F_Bool() and a plain SBool or an FBool
\* value, in either operand order, return the plain SBool singleton with the
\* truth of and, or, xor of the operands.
C14_ClosedPairPromotes ==
    (/\ IsBinOp
     /\ last.a \in heap /\ last.b \in heap
     /\ \/ last.a.ty \in {"T_Bool", "F_Bool"} /\ last.b.ty \in {"SBool", "FBool"}
        \/ last.b.ty \in {"T_Bool", "F_Bool"} /\ last.a.ty \in {"SBool", "FBool"})
    => PlainResult

\* the closed pair's singleton of the given truth
ClosedSingleton(truth) ==
    IF truth = 1 THEN slots["T_Bool"]["_truthy"] ELSE slots["F_Bool"]["_falsy"]

\* C15: for a and b in {T_Bool(), F_Bool()}, a & b, a | b and a ^ b never raise
\* and return exactly T_Bool() when the and, or, xor of the truths is true and
\* exactly F_Bool() otherwise.
C15_ClosedUnderOperators ==
    (/\ IsBinOp
     /\ last.a \in heap /\ last.b \in heap
     /\ last.a.ty \in {"T_Bool", "F_Bool"} /\ last.b.ty \in {"T_Bool", "F_Bool"})
    => /\ last.out = "ret"
       /\ last.val.val = Expected(last.op, last.a, last.b)
       /\ last.val.ty = (IF last.val.val = 1 THEN "T_Bool" ELSE "F_Bool")
       /\ last.val = ClosedSingleton(last.val.val)

\* ALWAYS ^ ALWAYS has returned NEVER_EVER
C15_Witness ==
    /\ consts.ALWAYS # None
    /\ last.op = "^"
    /\ last.a = consts.ALWAYS /\ last.b = consts.ALWAYS
    /\ last.out = "ret"
    /\ last.val = consts.NEVER_EVER

\* C16: TF_Bool(w) returns the T_Bool singleton when w is truthy and the F_Bool
\* singleton otherwise; T_Bool(x) returns the one truthy and F_Bool(x) the one
\* falsy singleton for every x; TF_Bool(True), T_Bool() and ALWAYS are one
\* object, TF_Bool(False), F_Bool() and NEVER_EVER another.
C16_ClosedPairConstructors ==
    /\ \A r \in returned :
          r.cls \in {"TF_Bool", "T_Bool", "F_Bool"} =>
              /\ r.obj \in heap
              /\ r.obj.val = r.truth
              /\ r.obj.ty = (IF r.truth = 1 THEN "T_Bool" ELSE "F_Bool")
              /\ r.obj = ClosedSingleton(r.truth)
              /\ consts.ALWAYS # None =>
                    r.obj = (IF r.truth = 1 THEN consts.ALWAYS ELSE consts.NEVER_EVER)
    /\ \A o1, o2 \in heap :
          o1.ty \in {"T_Bool", "F_Bool"} /\ o1.ty = o2.ty => o1 = o2
    /\ (last.op = "new" /\ last.cls = "T_Bool") => (last.out = "ret" /\ last.val.val = 1)
    /\ (last.op = "new" /\ last.cls = "F_Bool") => (last.out = "ret" /\ last.val.val = 0)
    /\ (last.op = "new" /\ last.cls = "TF_Bool" /\ last.a # Absent)
          => (last.out = "ret" /\ last.val.val = (IF Truthy(last.a) THEN 1 ELSE 0))

\* T_Bool(False) has returned ALWAYS, which TF_Bool(True) returned before
C16_Witness ==
    /\ consts.ALWAYS # None
    /\ last.op = "new" /\ last.cls = "T_Bool" /\ last.a = PyFalse
    /\ last.val = consts.ALWAYS
    /\ \E r \in returned : r.cls = "TF_Bool" /\ r.truth = 1 /\ r.obj = consts.ALWAYS

\* ~ applied to the value a finished call r returned, in the state r left
InvertOf(r) == IF r.out = "ret" THEN Invert(r.val, r.st) ELSE r

\* the values of exactly the four library types
LibraryValues == {x \in heap : x.ty \in {"SBool", "FBool", "T_Bool", "F_Bool"}}

\* C17: for every value x of SBool, of FBool with any flavor, of T_Bool and of
\* F_Bool, ~(~x) is x, the same object.
C17_InvertInvolution ==
    \A x \in LibraryValues :
        /\ InvertOf(Invert(x, St)).out = "ret"
        /\ InvertOf(Invert(x, St)).val = x

\* x has just been inverted into another object, and inverting that gives x
C17_Witness ==
    /\ last.op = "~" /\ last.out = "ret"
    /\ last.a \in LibraryValues
    /\ last.a.ty = "FBool"
    /\ last.val # last.a
    /\ Invert(last.val, St).val = last.a

\* C18: ~x (and snot(x)) is the opposite-truth singleton of x's own family: the
\* other SBool singleton for a plain SBool, the opposite-truth FBool of the
\* same flavor for an FBool, F_Bool() for T_Bool() and T_Bool() for F_Bool().
C18_InvertStaysInFamily ==
    (last.op = "~" /\ last.a \in LibraryValues)
    => /\ last.out = "ret"
       /\ last.val \in heap
       /\ last.val.val = 1 - last.a.val
       /\ CASE last.a.ty = "SBool" ->
                 /\ last.val.ty = "SBool"
                 /\ last.val = slots["SBool"][IF last.val.val = 1 THEN "_truthy" ELSE "_falsy"]
            [] last.a.ty = "FBool" ->
                 /\ IsInstance(last.val, "FBool")
                 /\ last.val.key = last.a.key
                 /\ KeyOf(flavor[last.val]) = KeyOf(flavor[last.a])
                 /\ last.val = (IF last.val.val = 1 THEN FBool_truthy ELSE FBool_falsy)[last.a.key]
            [] OTHER ->
                 /\ last.val.ty = (IF last.a.ty = "T_Bool" THEN "F_Bool" ELSE "T_Bool")
                 /\ last.val = ClosedSingleton(last.val.val)

\* ~ALWAYS has returned NEVER_EVER while an FBool value exists
C18_Witness ==
    /\ consts.ALWAYS # None
    /\ last.op = "~" /\ last.a = consts.ALWAYS
    /\ last.val = consts.NEVER_EVER
    /\ \E x \in heap : x.ty = "FBool"

\* ~(a op b), evaluated from state st
InvertedOp(op, a, b, st) == InvertOf(BinOp(op, a, b, st))

\* (~a op ~b), evaluated left to right: ra and rb are the finished ~a and ~b
OpOfInvertedLast(op, ra, rb) ==
    IF rb.out # "ret" THEN rb ELSE BinOp(op, ra.val, rb.val, rb.st)

OpOfInvertedRest(op, ra, b) ==
    IF ra.out # "ret" THEN ra ELSE OpOfInvertedLast(op, ra, Invert(b, ra.st))

OpOfInverted(op, a, b, st) == OpOfInvertedRest(op, Invert(a, st), b)

\* left is the finished ~(a op1 b); then (~a op2 ~b) gives the same object
SameAsInverted(left, op2, a, b) ==
    /\ left.out = "ret"
    /\ OpOfInverted(op2, a, b, left.st).out = "ret"
    /\ OpOfInverted(op2, a, b, left.st).val = left.val

DeMorgan(op1, op2, a, b) == SameAsInverted(InvertedOp(op1, a, b, St), op2, a, b)

\* C19: for a and b in {T_Bool(), F_Bool()}, however they were constructed,
\* ~(a & b) is (~a | ~b) and ~(a | b) is (~a & ~b).
C19_DeMorganOnClosedPair ==
    \A a, b \in {x \in heap : x.ty \in {"T_Bool", "F_Bool"}} :
        DeMorgan("&", "|", a, b) /\ DeMorgan("|", "&", a, b)

\* T_Bool() & F_Bool() has returned F_Bool(), whose invert T_Bool() is also
\* what ~T_Bool() | ~F_Bool() gives
C19_Witness ==
    /\ last.op = "&" /\ last.out = "ret"
    /\ last.a \in heap /\ last.b \in heap
    /\ last.a.ty = "T_Bool" /\ last.b.ty = "F_Bool"
    /\ Invert(last.val, St).val = OpOfInverted("|", last.a, last.b, St).val
    /\ Invert(last.val, St).val.ty = "T_Bool"

\* C20: two values of the hierarchy compare equal exactly when they have the
\* same truth, whatever their types and flavors, while a is b holds only
\* between values of the same exact type, the same flavor and the same truth;
\* TRUTH is not ALWAYS and LIE is not NEVER_EVER though they are equal.
C20_EqualityIsNotIdentity ==
    /\ last.op = "==" =>
          /\ last.out = "ret"
          /\ (last.val = PyTrue) <=> (last.a.val = last.b.val)
    /\ (last.op = "is" /\ last.val = PyTrue) =>
          /\ last.a.ty = last.b.ty
          /\ last.a.val = last.b.val
          /\ flavor[last.a] = flavor[last.b]
    /\ (last.op = "is" /\ last.val = PyFalse) =>
          \/ last.a.ty # last.b.ty
          \/ last.a.val # last.b.val
          \/ last.a.key # last.b.key
    /\ consts.ALWAYS # None =>
          /\ consts.TRUTH # consts.ALWAYS /\ int_eq(consts.TRUTH, consts.ALWAYS)
          /\ consts.LIE # consts.NEVER_EVER /\ int_eq(consts.LIE, consts.NEVER_EVER)

\* TRUTH == ALWAYS has answered True while the two are different objects and
\* two truthy FBool values of different flavors exist
C20_Witness ==
    /\ consts.ALWAYS # None
    /\ last.op = "==" /\ last.a = consts.TRUTH /\ last.b = consts.ALWAYS
    /\ last.val = PyTrue
    /\ ~Is(consts.TRUTH, consts.ALWAYS)
    /\ \E x, y \in heap :
          x.ty = "FBool" /\ y.ty = "FBool" /\ x.val = 1 /\ y.val = 1 /\ x # y

\* C21: the flavored constructor takes the witness first and the flavor
\* second: FBool(w, f) returns the singleton of flavor f whose truth is the
\* truthiness of w, so FBool(True, 0) is truthy with flavor 0.
C21_WitnessThenFlavor ==
    (last.op = "new" /\ last.cls = "FBool")
    => /\ last.out = "ret"
       /\ last.val.val = (IF Truthy(last.a) THEN 1 ELSE 0)
       /\ last.val.key = KeyOf(last.b)
       /\ KeyOf(flavor[last.val]) = KeyOf(last.b)

\* C22: values are immutable after creation: no later constructor call,
\* invert or binary operator changes the truth or the stored flavor attribute
\* of a value that exists.
C22_ImmutableAfterCreation ==
    [][\A o \in heap : o \in heap' /\ (flavor[o] # Unset => flavor'[o] = flavor[o])]_vars

\* the step is a binary operator call that raised
FailedBinOp == ncalls' = ncalls + 1 /\ last'.op \in Ops /\ last'.out # "ret"

CachesUnchanged ==
    /\ slots' = slots
    /\ FBool_truthy' = FBool_truthy
    /\ FBool_falsy' = FBool_falsy

\* C23: in a program that has imported the module, a binary operator call that
\* raises leaves the SBool slots, both FBool maps and the T_Bool and F_Bool
\* slots as they were before the call.
C23_FailureLeavesCaches ==
    [][(consts.TRUTH # None /\ FailedBinOp) => CachesUnchanged]_vars

\* an operator call on an existing FBool value has just raised
C23_Witness ==
    /\ consts.TRUTH # None
    /\ IsBinOp
    /\ last.out \in {"TypeError", "RecursionError"}
    /\ last.a \in heap /\ last.a.ty = "FBool"
    /\ DOMAIN FBool_truthy # {}

\* C24: once an SBool slot, an FBool map entry or the T_Bool or F_Bool slot
\* holds a singleton, it holds that same object in every later state.
C24_MonotonicCache ==
    [][/\ \A c \in SlotClasses, a \in {"_truthy", "_falsy"} :
             slots[c][a] \in heap => slots'[c][a] = slots[c][a]
       /\ \A k \in DOMAIN FBool_truthy :
             k \in DOMAIN FBool_truthy' /\ FBool_truthy'[k] = FBool_truthy[k]
       /\ \A k \in DOMAIN FBool_falsy :
             k \in DOMAIN FBool_falsy' /\ FBool_falsy'[k] = FBool_falsy[k]]_vars

\* a call has returned the singleton another call created earlier, while the
\* other thread is filling a different cache
C24_Witness ==
    \E t, u \in 1 .. FairThreads :
        /\ pc[t] = "init" /\ ~call[t].first
        /\ call[t].obj = Cached(call[t])
        /\ pc[u] = "release"
        /\ LockOf(call[u]) # LockOf(call[t])
        /\ slots["SBool"]["_truthy"] \in heap
        /\ DOMAIN FBool_truthy # {}

\* the witness argument of the constructor call in last, as the class declares it
LastWitness == IF last.cls \in {"FBool", "SubF"} THEN last.b ELSE last.a

\* C25: a value constructed from a witness (SBool(w), TF_Bool(w), FBool with
\* witness w) is truthy exactly when w is truthy, with integer payload 1 or 0
\* accordingly, and SBool() is falsy.
C25_TruthinessOfWitness ==
    (last.op = "new" /\ last.out = "ret" /\ last.cls \in {"SBool", "TF_Bool", "FBool"})
    => /\ last.val.val \in {0, 1}
       /\ (last.val.val = 1) <=> (LastWitness.val # 0)
       /\ Truthy(last.val) <=> (LastWitness.val # 0)
       /\ (last.cls = "SBool" /\ last.a = Absent) => ~Truthy(last.val)

\* SBool() has returned the falsy LIE after TF_Bool(True) returned a truthy value
C25_Witness ==
    /\ consts.LIE # None
    /\ last.op = "new" /\ last.cls = "SBool" /\ last.a = Absent /\ last.b = Absent
    /\ last.val = consts.LIE
    /\ \E r \in returned : r.cls = "TF_Bool" /\ r.obj.val = 1
    /\ \E r \in returned : r.cls = "FBool" /\ r.obj.val = 0

\* the statements of __new__ inside or waiting for the with block
LockedRegion == {"acquire", "recheck", "create", "release"}

\* C26: once the singleton for a cache key exists, a constructor call for that
\* key returns it without acquiring any lock: only a call whose unlocked test
\* found the key missing waits for or holds a lock, so a call for an existing
\* key completes while another thread holds that type's lock.
C26_LockFreeRead ==
    /\ \A t \in Threads : pc[t] \in LockedRegion => call[t].first
    /\ \A l \in DOMAIN locks :
          locks[l] # 0 => (call[locks[l]].first /\ pc[locks[l]] \in LockedRegion)
    /\ \A t \in Threads :
          (pc[t] \in {"return", "init", "setflavor"} /\ ~call[t].first)
              => ENABLED (Step(t) \/ SetFlavor(t))

\* a call got the existing singleton without the lock while the other thread,
\* which created it, still holds that lock
C26_Witness ==
    \E t, u \in 1 .. FairThreads :
        /\ t # u
        /\ pc[t] = "init" /\ ~call[t].first
        /\ pc[u] = "release"
        /\ locks[LockOf(call[t])] = u
        /\ call[t].obj = Cached(call[u])

\* x.name(o), the method called directly on x
Method(name, x, o) == Run([name |-> name, self |-> x, other |-> o], St, 0)

\* two finished calls raised the same error or returned the same object
SameOutcome(r1, r2) == r1.out = r2.out /\ r1.val = r2.val

\* C27: for every SBool x and operand o, x.__ror__(o) returns what
\* x.__or__(o) returns and x.__rxor__(o) what x.__xor__(o) returns, as
\* x.__rand__(o) returns what x.__and__(o) returns.
C27_ReflectedSameAsForward ==
    \A x \in {v \in heap : v.ty = "SBool"} :
        \A o \in heap \cup Outside :
            /\ SameOutcome(Method("__rand__", x, o), Method("__and__", x, o))
            /\ SameOutcome(Method("__ror__", x, o), Method("__or__", x, o))
            /\ SameOutcome(Method("__rxor__", x, o), Method("__xor__", x, o))

\* C28: the eager operators are commutative on identity across the
\* hierarchy: for a and b among SBool, FBool of any flavors, T_Bool and F_Bool
\* values, a op b and b op a both raise or both return the same object.
C28_Commutative ==
    \A a, b \in LibraryValues :
        \A op \in Ops : SameOutcome(BinOp(op, a, b, St), BinOp(op, b, a, St))

\* the locks thread t holds
Held(t) == {l \in DOMAIN locks : locks[l] = t}

\* a thread holds a lock only between entering and leaving its own with
\* block, and that lock is the only one it holds
LockDiscipline ==
    \A t \in Threads :
        /\ pc[t] \in {"recheck", "create", "release"} => Held(t) = {LockOf(call[t])}
        /\ pc[t] \notin {"recheck", "create", "release"} => Held(t) = {}

\* C29: the constructors cannot deadlock: no constructor path holds one lock
\* while acquiring another, every acquired lock is released on every path, and
\* under fair scheduling every constructor call of SBool, FBool, TF_Bool,
\* T_Bool and F_Bool by any thread eventually returns.
C29_NoDeadlock ==
    /\ []LockDiscipline
    /\ \A t \in 1 .. FairThreads : (pc[t] # "idle") ~> (pc[t] = "idle")

\* a thread waits for the lock another thread holds while a finished call has
\* already returned a value of another family
C29_Witness ==
    \E t, u \in 1 .. FairThreads :
        /\ pc[t] = "acquire"
        /\ locks[LockOf(call[t])] = u
        /\ pc[u] = "create"
        /\ \E r \in returned : r.cls # call[t].cls

\* the constructor calls made so far, finished or still running
Requests == returned \cup {Outcome(call[t]) : t \in {u \in Threads : pc[u] # "idle"}}

\* cache is FBool._truthy (truth 1) or FBool._falsy (truth 0)
WellFormed(cache, truth) ==
    \A k \in DOMAIN cache :
        /\ cache[k] \in heap
        /\ cache[k].val = truth
        /\ Truthy(cache[k]) <=> (truth = 1)
        /\ (\E r \in returned : r.obj = cache[k])
              => (flavor[cache[k]] # Unset /\ KeyOf(flavor[cache[k]]) = k)
        /\ \E r \in Requests : IsSubclass(r.cls, "FBool") /\ r.key = k /\ r.truth = truth

\* C30: FBool's caches are well formed: every entry of the truthy map has
\* truth 1 and every entry of the falsy map truth 0, the object stored under
\* flavor f has stored flavor f once a constructor call has returned it, and
\* a flavor is in a map only after some call requested that (flavor, truth).
C30_FlavoredCachesWellFormed ==
    WellFormed(FBool_truthy, 1) /\ WellFormed(FBool_falsy, 0)

\* both maps are filled, one truthy entry has been returned with its flavor
\* stored, and another has been inserted by a call that is still in __init__
C30_Witness ==
    /\ DOMAIN FBool_falsy # {}
    /\ \E k1, k2 \in DOMAIN FBool_truthy :
          /\ k1 # k2
          /\ \E r \in returned : r.obj = FBool_truthy[k1]
          /\ KeyOf(flavor[FBool_truthy[k1]]) = k1
          /\ flavor[FBool_truthy[k2]] = Unset
          /\ \E t \in Threads : pc[t] = "setflavor" /\ call[t].obj = FBool_truthy[k2]

====
